---- MODULE Spec2Model ----
(***************************************************************************)
(* PageRank (pagerank.py): the transition model, the sampling estimator    *)
(* sample_pagerank and the power-iteration estimator iterate_pagerank.     *)
(*                                                                         *)
(* Numbers.  The program computes in binary floating point.  Here every    *)
(* probability and rank is an integer number of units of 1/Scale, and a    *)
(* division or a product by the damping factor truncates to a whole unit,  *)
(* as a float operation rounds to a representable value.  Scale is chosen  *)
(* so that 1/N, (1-d)/N, d/L and counter/(n*N) are whole for every value   *)
(* the model draws; the power iteration does truncate.                     *)
(*                                                                         *)
(* The specifications: TMSpec (a call of transition_model), SampleSpec (a   *)
(* call of sample_pagerank, one step per counted page), IterSpec (a call   *)
(* of iterate_pagerank, one step per sweep) and IterFairSpec (the same     *)
(* loop, which runs on while it can).                                      *)
(*                                                                         *)
(* Pages.  A page is an opaque name; the pages of a corpus of N pages are  *)
(* written 1..N.  No operation of the program depends on the names, so a   *)
(* corpus is drawn once per renaming: pages are numbered by decreasing     *)
(* out-degree and, among equal out-degrees, by decreasing in-degree.       *)
(***************************************************************************)
EXTENDS Integers, FiniteSets, TLC

VARIABLES
    corpus,            \* the link graph: page -> set of pages it links to
    damping_factor,    \* [num, den]: the damping factor num/den
    page,              \* transition_model's argument `page`
    n,                 \* sample_pagerank's argument `n`
    pc,                \* where the call is
    result,            \* sample_pagerank: the visit counters
    origin_page,       \* sample_pagerank: the current page (0: not yet set)
    trials,            \* sample_pagerank: completed iterations of `for _ in range(n)`
    steps,             \* sample_pagerank: completed iterations of the inner walk loop
    orgin_pagerank,    \* iterate_pagerank: the previous sweep's ranks
    convergence,       \* iterate_pagerank: the loop flag
    ret,               \* the returned mapping
    raised             \* the exception that ended the call ("none": none)

vars == <<corpus, damping_factor, page, n, pc, result, origin_page, trials,
          steps, orgin_pagerank, convergence, ret, raised>>

(* ------------------------------ bounds -------------------------------- *)

\* Most pages of a corpus given to transition_model and iterate_pagerank.
MaxPages == 4
\* Most pages of a corpus given to sample_pagerank.
MaxSamplePages == 3
\* Largest sample count n given to sample_pagerank.
MaxSamples == 2
\* Most pages of a corpus for which the termination of iterate_pagerank is
\* checked.
MaxLoopPages == 3

(* ------------------------------ numbers ------------------------------- *)

\* Units per 1.0: 1000 makes the threshold 0.001 whole, 18000 makes 1/N,
\* (1-d)/N, d/L and counter/(n*N) whole for the pages and dampings drawn.
Scale == 1000 * 18000

DAMPING == [num |-> 17, den |-> 20]

Dampings == {[num |-> 0, den |-> 1], DAMPING, [num |-> 1, den |-> 1]}

\* x * d, for a damping factor (or 1 - damping factor) d
Times(x, d) == (x * d.num) \div d.den

\* 1 - damping_factor
OneMinus(d) == [num |-> d.den - d.num, den |-> d.den]

\* the float quotient a / b of two integers, b # 0
Quotient(a, b) == IF b < 0 THEN 0 - ((a * Scale) \div (0 - b)) ELSE (a * Scale) \div b

Abs(x) == IF x < 0 THEN 0 - x ELSE x

\* len(corpus)
num_pages(c) == Cardinality(DOMAIN c)

RECURSIVE SumTo(_, _)
SumTo(f, i) == IF i = 0 THEN 0 ELSE f[i] + SumTo(f, i - 1)

\* sum(f.values()) of a mapping over pages 1..N
Sum(f) == SumTo(f, num_pages(f))

(* ------------------------------ corpora ------------------------------- *)

InDegree(c, p) == Cardinality({q \in DOMAIN c : p \in c[q]})

Ordered(c) ==
    \A i \in DOMAIN c : i + 1 \in DOMAIN c =>
        \/ Cardinality(c[i]) > Cardinality(c[i + 1])
        \/ /\ Cardinality(c[i]) = Cardinality(c[i + 1])
           /\ InDegree(c, i) >= InDegree(c, i + 1)

\* The k-th page other than p, of pages 1..N (k in 1..N-1).
Other(p, k) == IF k < p THEN k ELSE k + 1

\* The corpus in which page p links to its s[p]-th other pages.
Links(s) == [p \in DOMAIN s |-> {Other(p, k) : k \in s[p]}]

\* What crawl returns for a directory of N pages: every page a key, its
\* links a set of other keys (no link to itself, none out of the corpus).
CorporaOf(N) ==
    { Links(s) : s \in { t \in [1..N -> SUBSET (1..(N - 1))] : Ordered(Links(t)) } }

Corpora(maxN) == UNION {CorporaOf(N) : N \in 1..maxN}

EmptyCorpus == [p \in {} |-> {}]

(* -------------------------- transition_model -------------------------- *)

Returns(value) == [exc |-> "none", value |-> value]
Raises(exc) == [exc |-> exc, value |-> EmptyCorpus]

\* transition_model with `prob_page` of a linked page lacking the term
\* probability_pages_gen * (1 - damping_factor).
transition_model_no_teleport(c, pg, d) ==
    IF pg \notin DOMAIN c \/ c[pg] = {}
    THEN IF num_pages(c) = 0
         THEN Raises("ZeroDivisionError")
         ELSE Returns([page_it \in DOMAIN c |-> Scale \div num_pages(c)])
    ELSE Returns([page_it \in DOMAIN c |->
             IF page_it \in c[pg]
             THEN Times(Scale \div Cardinality(c[pg]), d)
             ELSE Times(Scale \div num_pages(c), OneMinus(d))])

\* transition_model without the tests for a page with no links: the else
\* branch divides by len(corpus[page]) = 0.
transition_model_no_dangling_test(c, pg, d) ==
    IF pg \notin DOMAIN c
    THEN IF num_pages(c) = 0
         THEN Raises("ZeroDivisionError")
         ELSE Returns([page_it \in DOMAIN c |-> Scale \div num_pages(c)])
    ELSE IF c[pg] = {}
         THEN Raises("ZeroDivisionError")
         ELSE Returns([page_it \in DOMAIN c |->
                 IF page_it \in c[pg]
                 THEN Times(Scale \div Cardinality(c[pg]), d)
                          + Times(Scale \div num_pages(c), OneMinus(d))
                 ELSE Times(Scale \div num_pages(c), OneMinus(d))])

\* transition_model without the test `corpus.get(page) is None`:
\* corpus[page] raises KeyError for a page that is not a key.
transition_model_no_absent_test(c, pg, d) ==
    IF pg \notin DOMAIN c
    THEN Raises("KeyError")
    ELSE IF c[pg] = {}
         THEN Returns([page_it \in DOMAIN c |-> Scale \div num_pages(c)])
         ELSE Returns([page_it \in DOMAIN c |->
                 IF page_it \in c[pg]
                 THEN Times(Scale \div Cardinality(c[pg]), d)
                          + Times(Scale \div num_pages(c), OneMinus(d))
                 ELSE Times(Scale \div num_pages(c), OneMinus(d))])

transition_model(c, pg, d) ==
    IF pg \notin DOMAIN c \/ c[pg] = {}
    THEN IF num_pages(c) = 0
         THEN Raises("ZeroDivisionError")
         ELSE LET probability_pages == Scale \div num_pages(c)
              IN  Returns([page_it \in DOMAIN c |-> probability_pages])
    ELSE LET probability_pages_gen == Scale \div num_pages(c)
             probability_pages_in == Scale \div Cardinality(c[pg])
         IN  Returns([page_it \in DOMAIN c |->
                 IF page_it \in c[pg]
                 THEN Times(probability_pages_in, d)
                          + Times(probability_pages_gen, OneMinus(d))
                 ELSE Times(probability_pages_gen, OneMinus(d))])

(* A call of transition_model(corpus, page, damping_factor). *)

TMInit ==
    /\ corpus \in Corpora(MaxPages) \cup {EmptyCorpus}
    /\ damping_factor \in Dampings
    /\ page \in 1..(MaxPages + 1)
    /\ n = 0
    /\ pc = "call"
    /\ result = EmptyCorpus
    /\ origin_page = 0
    /\ trials = 0
    /\ steps = 0
    /\ orgin_pagerank = EmptyCorpus
    /\ convergence = FALSE
    /\ ret = EmptyCorpus
    /\ raised = "none"

TMCall ==
    /\ pc = "call"
    /\ LET out == transition_model(corpus, page, damping_factor)
       IN  /\ pc' = IF out.exc = "none" THEN "returned" ELSE "raised"
           /\ ret' = out.value
           /\ raised' = out.exc
    /\ UNCHANGED <<corpus, damping_factor, page, n, result, origin_page, trials,
                   steps, orgin_pagerank, convergence>>

TMNext == TMCall

TMSpec == TMInit /\ [][TMNext]_vars

(* --------------------------- sample_pagerank -------------------------- *)

\* The pages random.choices can return for these weights: those of
\* positive weight.
Choices(probabilities) == {p \in DOMAIN probabilities : probabilities[p] > 0}

\* result[p] += 1
Increment(counters, p) == [counters EXCEPT ![p] = @ + 1]

\* The page the walk continues from after surfing to page_surfed.
NextOrigin(previous, page_surfed) == page_surfed

\* The walk loop written `for _ in range(num_pages)`.
WalkDone_range_num_pages(c, done) == done >= num_pages(c)

\* The walk loop `for _ in range(num_pages - 1)` is over.
WalkDone(c, done) == done >= num_pages(c) - 1

\* {key: value / (n * num_pages) for key, value in result.items()}
Normalize(counters, samples) ==
    [key \in DOMAIN counters |-> Quotient(counters[key], samples * num_pages(counters))]

(* A call of sample_pagerank(corpus, damping_factor, n), after
   `result = {page: 0 for page in corpus}`. *)

SampleInit ==
    /\ corpus \in Corpora(MaxSamplePages) \cup {EmptyCorpus}
    /\ damping_factor \in Dampings
    /\ page = 0
    /\ n \in (0 - 1)..MaxSamples
    /\ pc = "loop"
    /\ result = [p \in DOMAIN corpus |-> 0]
    /\ origin_page = 0
    /\ trials = 0
    /\ steps = 0
    /\ orgin_pagerank = EmptyCorpus
    /\ convergence = FALSE
    /\ ret = EmptyCorpus
    /\ raised = "none"

\* One iteration of `for _ in range(n)` begins: random.choice of an empty
\* list raises IndexError.
StartTrialEmpty ==
    /\ pc = "loop"
    /\ trials < n
    /\ DOMAIN corpus = {}
    /\ pc' = "raised"
    /\ raised' = "IndexError"
    /\ UNCHANGED <<corpus, damping_factor, page, n, result, origin_page, trials,
                   steps, orgin_pagerank, convergence, ret>>

\* One iteration of `for _ in range(n)` begins: a page chosen among all the
\* pages is counted and the walk starts from it.
StartTrial ==
    /\ pc = "loop"
    /\ trials < n
    /\ \E chosen \in DOMAIN corpus :
          /\ origin_page' = chosen
          /\ result' = Increment(result, chosen)
    /\ steps' = 0
    /\ IF WalkDone(corpus, 0)
       THEN pc' = "loop" /\ trials' = trials + 1
       ELSE pc' = "walk" /\ trials' = trials
    /\ UNCHANGED <<corpus, damping_factor, page, n, orgin_pagerank, convergence,
                   ret, raised>>

\* One iteration of `for _ in range(num_pages - 1)`.
WalkStep ==
    /\ pc = "walk"
    /\ LET probabilities == transition_model(corpus, origin_page, damping_factor).value
       IN  \E page_surfed \in Choices(probabilities) :
              /\ result' = Increment(result, page_surfed)
              /\ origin_page' = NextOrigin(origin_page, page_surfed)
    /\ steps' = steps + 1
    /\ IF WalkDone(corpus, steps + 1)
       THEN pc' = "loop" /\ trials' = trials + 1
       ELSE pc' = "walk" /\ trials' = trials
    /\ UNCHANGED <<corpus, damping_factor, page, n, orgin_pagerank, convergence,
                   ret, raised>>

\* The loop is over and there is a counter to divide by n * num_pages = 0.
NormalizeByZero ==
    /\ pc = "loop"
    /\ trials >= n
    /\ DOMAIN result # {}
    /\ n * num_pages(result) = 0
    /\ pc' = "raised"
    /\ raised' = "ZeroDivisionError"
    /\ UNCHANGED <<corpus, damping_factor, page, n, result, origin_page, trials,
                   steps, orgin_pagerank, convergence, ret>>

\* The loop is over: the counters are normalized and returned.
SampleReturn ==
    /\ pc = "loop"
    /\ trials >= n
    /\ DOMAIN result = {} \/ n * num_pages(result) # 0
    /\ ret' = Normalize(result, n)
    /\ pc' = "returned"
    /\ UNCHANGED <<corpus, damping_factor, page, n, result, origin_page, trials,
                   steps, orgin_pagerank, convergence, raised>>

SampleNext ==
    \/ StartTrialEmpty
    \/ StartTrial
    \/ WalkStep
    \/ NormalizeByZero
    \/ SampleReturn

SampleSpec == SampleInit /\ [][SampleNext]_vars

(* -------------------------- iterate_pagerank -------------------------- *)

\* The threshold 0.001 of the convergence test.
Threshold == Scale \div 1000

\* The sweep writing the new ranks into the mapping it reads: a page
\* already given its new rank this sweep is read at that new rank.
RankRead_in_place(potential_page, orgin, iteration_pagerank) ==
    IF potential_page \in DOMAIN iteration_pagerank
    THEN iteration_pagerank[potential_page]
    ELSE orgin[potential_page]

\* The rank of potential_page that the sweep reads while the new ranks
\* iteration_pagerank are being filled in.
RankRead(potential_page, orgin, iteration_pagerank) == orgin[potential_page]

\* `contribution` of potential_page to the new rank of pg.
Contribution(c, pg, potential_page, orgin, iteration_pagerank) ==
    IF pg \in c[potential_page]
    THEN RankRead(potential_page, orgin, iteration_pagerank)
             \div Cardinality(c[potential_page])
    ELSE 0

\* What one pass of `for potential_page, links in corpus.items()` adds.
Damped(c, d, pg, potential_page, orgin, iteration_pagerank) ==
    Times(Contribution(c, pg, potential_page, orgin, iteration_pagerank), d)

RECURSIVE AddContributions(_, _, _, _, _, _)
AddContributions(c, d, pg, i, orgin, iteration_pagerank) ==
    IF i = 0 THEN 0
    ELSE Damped(c, d, pg, i, orgin, iteration_pagerank)
             + AddContributions(c, d, pg, i - 1, orgin, iteration_pagerank)

\* new_rank of pg at the end of the inner loop.
new_rank(c, d, pg, orgin, iteration_pagerank) ==
    Times(Scale, OneMinus(d)) \div num_pages(c)
        + AddContributions(c, d, pg, num_pages(c), orgin, iteration_pagerank)

\* `for page in corpus`, from page i on: iteration_pagerank[page] = new_rank.
RECURSIVE SweepFrom(_, _, _, _, _)
SweepFrom(c, d, i, orgin, iteration_pagerank) ==
    IF i > num_pages(c) THEN iteration_pagerank
    ELSE SweepFrom(c, d, i + 1, orgin,
             (i :> new_rank(c, d, i, orgin, iteration_pagerank)) @@ iteration_pagerank)

\* The convergence test with the flag assigned, not only cleared, for each
\* page: the last page decides.
Converged_last_page(iteration_pagerank, orgin) ==
    \A pg \in DOMAIN orgin :
        pg = num_pages(orgin) => ~(Abs(iteration_pagerank[pg] - orgin[pg]) > Threshold)

\* The convergence test written `!=`: any difference at all keeps the loop
\* going.
Converged_exact(iteration_pagerank, orgin) ==
    \A pg \in DOMAIN orgin : iteration_pagerank[pg] = orgin[pg]

\* The convergence test: no page's rank moved by more than the threshold.
Converged(iteration_pagerank, orgin) ==
    \A pg \in DOMAIN orgin : ~(Abs(iteration_pagerank[pg] - orgin[pg]) > Threshold)

(* A call of iterate_pagerank(corpus, damping_factor), after
   `orgin_pagerank = {page_name: 1/len(corpus) ...}; convergence = False`. *)

IterStart ==
    /\ damping_factor \in Dampings
    /\ page = 0
    /\ n = 0
    /\ pc = "iterating"
    /\ result = EmptyCorpus
    /\ origin_page = 0
    /\ trials = 0
    /\ steps = 0
    /\ orgin_pagerank = [page_name \in DOMAIN corpus |-> Scale \div num_pages(corpus)]
    /\ convergence = FALSE
    /\ ret = EmptyCorpus
    /\ raised = "none"

IterInit == corpus \in Corpora(MaxPages) /\ IterStart

\* The same call, for the corpora on which the loop's termination is checked.
LoopInit == corpus \in Corpora(MaxLoopPages) /\ IterStart

\* One iteration of `while not convergence`.
Sweep ==
    /\ pc = "iterating"
    /\ ~convergence
    /\ LET iteration_pagerank ==
               SweepFrom(corpus, damping_factor, 1, orgin_pagerank, EmptyCorpus)
       IN  /\ convergence' = Converged(iteration_pagerank, orgin_pagerank)
           /\ orgin_pagerank' = iteration_pagerank
    /\ UNCHANGED <<corpus, damping_factor, page, n, pc, result, origin_page,
                   trials, steps, ret, raised>>

\* `return orgin_pagerank`
IterReturn ==
    /\ pc = "iterating"
    /\ convergence
    /\ ret' = orgin_pagerank
    /\ pc' = "returned"
    /\ UNCHANGED <<corpus, damping_factor, page, n, result, origin_page, trials,
                   steps, orgin_pagerank, convergence, raised>>

IterNext == Sweep \/ IterReturn

IterSpec == IterInit /\ [][IterNext]_vars

\* The loop runs on while it can: the program is one thread that nothing
\* suspends.
IterFairSpec == LoopInit /\ [][IterNext]_vars /\ WF_vars(IterNext)

(* ======================= transition_model: claims ===================== *)

Uniform(c) == [q \in DOMAIN c |-> Scale \div num_pages(c)]

\* C1: for a non-empty corpus and a page of it, transition_model returns a
\* mapping whose keys are exactly the corpus pages, whose values are all
\* non-negative and whose values sum to 1.
C1_TransitionIsDistribution ==
    (pc # "call" /\ page \in DOMAIN corpus) =>
        /\ pc = "returned"
        /\ DOMAIN ret = DOMAIN corpus
        /\ \A q \in DOMAIN ret : ret[q] >= 0
        /\ Sum(ret) = Scale

\* A page with links, in a corpus with a page it does not link to, damped.
C1_Witness ==
    /\ pc = "returned"
    /\ page \in DOMAIN corpus
    /\ corpus[page] # {}
    /\ \E q \in DOMAIN corpus : q # page /\ q \notin corpus[page]
    /\ damping_factor = DAMPING
    /\ \E q \in DOMAIN ret : ret[q] > ret[page]

\* C2: for a page of the corpus with no outgoing link, transition_model
\* gives every page exactly 1/N, whatever the damping factor.
C2_DanglingIsUniform ==
    (pc # "call" /\ page \in DOMAIN corpus /\ corpus[page] = {}) =>
        /\ pc = "returned"
        /\ DOMAIN ret = DOMAIN corpus
        /\ \A q \in DOMAIN ret : ret[q] * num_pages(corpus) = Scale

\* A dangling page of a corpus that has links, with damping factor 1.
C2_Witness ==
    /\ pc = "returned"
    /\ page \in DOMAIN corpus
    /\ corpus[page] = {}
    /\ \E q \in DOMAIN corpus : corpus[q] # {}
    /\ damping_factor.num = damping_factor.den

\* C8 (as claimed): transition_model called with a page that is not a key
\* of the corpus fails instead of returning a distribution.
C8_AbsentPageRaises ==
    (pc # "call" /\ page \notin DOMAIN corpus) => pc = "raised"

\* C8 (amended): called with a page that is not a key of the corpus,
\* transition_model returns 1/N for every page of a non-empty corpus, as for
\* a dangling page, and raises ZeroDivisionError only for an empty corpus.
C8_AbsentPageIsUniform ==
    (pc # "call" /\ page \notin DOMAIN corpus) =>
        IF DOMAIN corpus = {}
        THEN pc = "raised" /\ raised = "ZeroDivisionError"
        ELSE /\ pc = "returned"
             /\ raised = "none"
             /\ DOMAIN ret = DOMAIN corpus
             /\ \A q \in DOMAIN ret : ret[q] * num_pages(corpus) = Scale

\* An absent page, a corpus of several pages with links.
C8_Witness ==
    /\ pc = "returned"
    /\ page \notin DOMAIN corpus
    /\ num_pages(corpus) >= 2
    /\ \E q \in DOMAIN corpus : corpus[q] # {}

(* ======================== sample_pagerank: claims ===================== *)

\* The pages a walk step from page p can count, by the damped rule: any
\* page when p has no link or some probability is left to teleporting,
\* otherwise only the pages p links to.
CanSurf(c, d, p) == IF c[p] = {} \/ d.num < d.den THEN DOMAIN c ELSE c[p]

C6_Counted ==
    (n >= 1 /\ DOMAIN corpus # {}) =>
        /\ pc # "raised"
        /\ DOMAIN result = DOMAIN corpus
        /\ Sum(result) = trials * num_pages(corpus) + (IF pc = "walk" THEN steps + 1 ELSE 0)
        /\ pc = "walk" => steps < num_pages(corpus) - 1
        /\ pc = "returned" =>
              /\ trials = n
              /\ Sum(result) = n * num_pages(corpus)
              /\ DOMAIN ret = DOMAIN corpus
              /\ \A q \in DOMAIN ret :
                    ret[q] >= 0 /\ ret[q] * (n * num_pages(corpus)) = result[q] * Scale
              /\ Sum(ret) = Scale

C6_Counting ==
    /\ (pc = "loop" /\ pc' # "returned" /\ n >= 1 /\ DOMAIN corpus # {}) =>
          \E q \in DOMAIN corpus :
              result' = [result EXCEPT ![q] = @ + 1] /\ origin_page' = q
    /\ pc = "walk" =>
          \E q \in CanSurf(corpus, damping_factor, origin_page) :
              result' = [result EXCEPT ![q] = @ + 1] /\ origin_page' = q

C7_InvalidInputRaises ==
    (n <= 0 \/ DOMAIN corpus = {}) => pc # "returned"

(* ======================= iterate_pagerank: claims ===================== *)

RECURSIVE DampedSumOver(_, _, _, _)
DampedSumOver(S, c, d, ranks) ==
    IF S = {} THEN 0
    ELSE LET q == CHOOSE x \in S : TRUE
         IN  Times(ranks[q] \div Cardinality(c[q]), d)
                 + DampedSumOver(S \ {q}, c, d, ranks)

\* The recurrence: (1 - d)/N + d * (sum over the pages q that link to p of
\* ranks[q] / outdegree(q)), each term of the sum damped as it is added.
Recurrence(c, d, p, ranks) ==
    Times(Scale, OneMinus(d)) \div num_pages(c)
        + DampedSumOver({q \in DOMAIN c : p \in c[q]}, c, d, ranks)

\* C3: the mapping iterate_pagerank returns has every corpus page as a key
\* and values that sum to 1 within 1e-6.
C3_IterateSumsToOne ==
    pc = "returned" =>
        /\ DOMAIN ret = DOMAIN corpus
        /\ Abs(Sum(ret) - Scale) <= Scale \div 1000000

\* C4: for a corpus of a single page with no link, iterate_pagerank returns
\* rank 1.0 for that page.
C4_SinglePageIsOne ==
    (pc = "returned" /\ num_pages(corpus) = 1) => ret[1] = Scale

\* C5 (as claimed): one more sweep of the recurrence over the returned
\* mapping changes every page's rank by at most 0.001.
C5_ReturnedIsFixedPoint ==
    pc = "returned" =>
        \A p \in DOMAIN corpus :
            Abs(Recurrence(corpus, damping_factor, p, ret) - ret[p]) <= Threshold

\* C5 (amended): one more sweep of the recurrence over the returned mapping
\* changes the rank of a page p by at most 0.001 times the number of pages
\* that link to p.
C5_ReturnedNearFixedPoint ==
    pc = "returned" =>
        \A p \in DOMAIN corpus :
            Abs(Recurrence(corpus, damping_factor, p, ret) - ret[p])
                <= Threshold * InDegree(corpus, p)

\* A returned mapping that one more sweep moves by more than 0.001 on a page.
C5_Witness ==
    /\ pc = "returned"
    /\ \E p \in DOMAIN corpus :
          Abs(Recurrence(corpus, damping_factor, p, ret) - ret[p]) > Threshold

C10_Step ==
    /\ (pc = "iterating" /\ ~convergence) =>
          /\ orgin_pagerank' =
                 [p \in DOMAIN corpus |->
                     Recurrence(corpus, damping_factor, p, orgin_pagerank)]
          /\ convergence' =
                 (\A p \in DOMAIN corpus :
                     Abs(orgin_pagerank'[p] - orgin_pagerank[p]) <= Threshold)
          /\ pc' = "iterating"
    /\ (pc = "iterating" /\ convergence) =>
          /\ pc' = "returned"
          /\ ret' = orgin_pagerank

\* C10: every sweep computes all the new ranks from the previous sweep's
\* mapping; the loop stops after a sweep if and only if every page's new
\* rank is within 0.001 of its previous rank, and then returns that sweep's
\* mapping; otherwise the new mapping replaces the old one and another
\* sweep runs.
C10_SynchronousSweeps == [][C10_Step]_vars

\* A call that returned after sweeps that did not converge: the returned
\* ranks are neither the initial ones nor those of the first sweep.
C10_Witness ==
    /\ pc = "returned"
    /\ ret # Uniform(corpus)
    /\ ret # [p \in DOMAIN corpus |->
                 Recurrence(corpus, damping_factor, p, Uniform(corpus))]
    /\ \E p, q \in DOMAIN corpus : p \in corpus[q] /\ q \in corpus[p]

\* C9 (as claimed): iterate_pagerank terminates for every non-empty corpus
\* and every damping factor in [0,1], 1 included.
C9_IterateTerminates == <>(pc = "returned")

\* C9 (amended): iterate_pagerank terminates for every non-empty corpus and
\* every damping factor less than 1.
C9_IterateTerminatesDamped ==
    (damping_factor.num < damping_factor.den) ~> (pc = "returned")

\* A damped call that returned for a corpus in which two pages link to each
\* other and a third links into them: the ranks of such a corpus never
\* settle at damping factor 1.
C9_Witness ==
    /\ pc = "returned"
    /\ damping_factor = DAMPING
    /\ num_pages(corpus) = 3
    /\ \E p, q, r \in DOMAIN corpus :
          /\ corpus[p] = {q}
          /\ corpus[q] = {p}
          /\ r \notin {p, q}
          /\ corpus[r] = {p}

====
